---- MODULE Spec2Model ----
(***************************************************************************)
(* Model of src/sql_server.py (MCP Alchemy): the process-wide Engine and   *)
(* get_connection's single-retry recovery, the four exposed tools, the     *)
(* read-only gate with is_cud_operation, and format_result's truncation.   *)
(*                                                                         *)
(* Texts are sequences of one-character strings, so that strip, upper and  *)
(* split are computed character by character; rendered report lines are    *)
(* strings, measured with Len as the code measures them with len.          *)
(***************************************************************************)
EXTENDS Integers, Sequences, FiniteSets, TLC

VARIABLES
    DB_URL,                  \* TRUE iff os.environ has a non-empty DB_URL
    READ_ONLY_MODE,          \* the READ_ONLY_MODE global
    EXECUTE_QUERY_MAX_CHARS, \* the EXECUTE_QUERY_MAX_CHARS global
    ENGINE,                  \* the ENGINE global: 0 is None, else an engine id
    engines,                 \* engines[i]: "live" or "disposed", per Engine built
    borrowed,                \* connections checked out of a pool and not closed
    pc,                      \* per request: position in the handler
    op,                      \* per request: the tool being served
    query,                   \* per request: execute_query's query argument
    conn,                    \* per request: engine id of the held connection, 0 if none
    connects,                \* per request: ENGINE.connect() calls of this call
    refused,                 \* per request: ENGINE.connect() calls that raised
    constructs,              \* per request: create_new_engine() calls of this call
    disposes,                \* per request: ENGINE.dispose() calls of this call
    stmts,                   \* per request: statements sent to the database
    prior,                   \* per request: engine the failed first attempt used
    made,                    \* per request: engine built on the recovery path
    failed,                  \* per request: a step of the call raised
    result,                  \* per request: what the tool handed to its caller
    calls,                   \* calls started so far, get_db_info included
    phase,                   \* "importing", "serving" or "exited"
    fin,                     \* classifier / formatter harness: input consumed
    cquery,                  \* classifier harness: the text classified
    cret,                    \* classifier harness: is_cud_operation's return
    fkeys,                   \* formatter harness: cursor_result.keys()
    frows,                   \* formatter harness: list(cursor_result)
    fret                     \* formatter harness: format_result's return

vars == <<DB_URL, READ_ONLY_MODE, EXECUTE_QUERY_MAX_CHARS, ENGINE, engines,
          borrowed, pc, op, query, conn, connects, refused, constructs, disposes,
          stmts, prior, made, failed, result, calls, phase, fin, cquery, cret, fkeys, frows,
          fret>>

sysvars == <<ENGINE, engines, borrowed, pc, op, query, conn, connects,
             refused, constructs, disposes, stmts, prior, made, failed, result, calls,
             phase>>

purevars == <<fin, cquery, cret, fkeys, frows, fret>>

cfgvars == <<DB_URL, READ_ONLY_MODE, EXECUTE_QUERY_MAX_CHARS>>

(***************************************************************************)
(* Bounds.                                                                 *)
(***************************************************************************)
NumRequests == 2     \* requests the hosting layer may serve at the same time
MaxCalls == 4        \* calls started in one behaviour, the import-time one included
MaxQueryLen == 5     \* longest text handed to the classifier harness
MaxRows == 3         \* most rows in a formatter-harness cursor
MaxCharsBound == 40  \* largest EXECUTE_QUERY_MAX_CHARS of the formatter harness

Requests == 1..NumRequests

(***************************************************************************)
(* Text primitives of Python's str, on sequences of one-character strings. *)
(***************************************************************************)
Whitespace == {" ", "\t"}

LowerCase == <<"a","b","c","d","e","f","g","h","i","j","k","l","m",
               "n","o","p","q","r","s","t","u","v","w","x","y","z">>

UpperCase == <<"A","B","C","D","E","F","G","H","I","J","K","L","M",
               "N","O","P","Q","R","S","T","U","V","W","X","Y","Z">>

\* str.upper() on one character
upper_char(c) ==
    IF \E i \in 1..Len(LowerCase) : LowerCase[i] = c
    THEN UpperCase[CHOOSE i \in 1..Len(LowerCase) : LowerCase[i] = c]
    ELSE c

\* str.upper()
upper(s) == [i \in 1..Len(s) |-> upper_char(s[i])]

RECURSIVE lstrip(_)
lstrip(s) ==
    IF s # <<>> /\ Head(s) \in Whitespace THEN lstrip(Tail(s)) ELSE s

RECURSIVE rstrip(_)
rstrip(s) ==
    IF s # <<>> /\ s[Len(s)] \in Whitespace
    THEN rstrip(SubSeq(s, 1, Len(s) - 1))
    ELSE s

\* str.strip() with no argument
strip(s) == rstrip(lstrip(s))

\* the characters of s before its first whitespace character
RECURSIVE take_word(_)
take_word(s) ==
    IF s = <<>> \/ Head(s) \in Whitespace THEN <<>>
    ELSE <<Head(s)>> \o take_word(Tail(s))

\* str.split() with no argument: the maximal runs of non-whitespace
RECURSIVE split(_)
split(s) ==
    LET t == lstrip(s) IN
    IF t = <<>> THEN <<>>
    ELSE LET w == take_word(t) IN
         <<w>> \o split(SubSeq(t, Len(w) + 1, Len(t)))

\* the str a character sequence stands for
RECURSIVE as_str(_)
as_str(s) == IF s = <<>> THEN "" ELSE Head(s) \o as_str(Tail(s))

(***************************************************************************)
(* is_cud_operation                                                        *)
(***************************************************************************)
cud_keywords ==
    {"INSERT", "UPDATE", "DELETE", "CREATE", "DROP", "ALTER", "TRUNCATE",
     "REPLACE", "MERGE", "UPSERT"}

\* is_cud_operation with the upper-casing left out
is_cud_operation_no_upper(q) ==
    LET words == split(strip(q)) IN
    IF words = <<>> THEN FALSE ELSE as_str(words[1]) \in cud_keywords

is_cud_operation(q) ==
    LET query_upper == upper(strip(q))
        words == split(query_upper)
    IN IF words = <<>> THEN FALSE
       ELSE LET first_keyword == as_str(words[1]) IN
            first_keyword \in cud_keywords

(***************************************************************************)
(* format_value and format_result                                          *)
(***************************************************************************)
\* A scalar is a record: [t |-> "null"], [t |-> "int", v |-> n],
\* [t |-> "date", iso |-> s] (isoformat() of the date) or [t |-> "str", v |-> s].
format_value(val) ==
    CASE val.t = "null" -> "NULL"
      [] val.t = "date" -> val.iso
      [] val.t = "int"  -> ToString(val.v)
      [] OTHER          -> val.v

\* sub_result of one row: header, one line per zip(keys, row), blank line
sub_result(row_count, keys, row) ==
    LET n == IF Len(keys) < Len(row) THEN Len(keys) ELSE Len(row) IN
    <<ToString(row_count) \o ". row">>
    \o [i \in 1..n |-> keys[i] \o ": " \o format_value(row[i])]
    \o <<"">>

\* sum(len(x) + 1 for x in sub_result)
RECURSIVE lines_size(_)
lines_size(ls) ==
    IF ls = <<>> THEN 0 ELSE Len(Head(ls)) + 1 + lines_size(Tail(ls))

\* The for loop of format_result from row i on; st is the loop's locals.
RECURSIVE format_loop(_, _, _, _, _)
format_loop(rows, keys, maxChars, i, st) ==
    IF i > Len(rows) THEN st
    ELSE LET row_count == st.row_count + 1
             sub == sub_result(row_count, keys, rows[i])
             size == st.size + lines_size(sub)
         IN IF size > maxChars
            THEN [st EXCEPT !.row_count = row_count, !.size = size,
                            !.did_truncate = TRUE]
            ELSE format_loop(rows, keys, maxChars, i + 1,
                     [st EXCEPT !.row_count = row_count, !.size = size,
                                !.result = st.result \o sub])

\* format_result that emits the row block before testing the size
RECURSIVE format_loop_emit_first(_, _, _, _, _)
format_loop_emit_first(rows, keys, maxChars, i, st) ==
    IF i > Len(rows) THEN st
    ELSE LET row_count == st.row_count + 1
             sub == sub_result(row_count, keys, rows[i])
             size == st.size + lines_size(sub)
         IN IF size > maxChars
            THEN [st EXCEPT !.row_count = row_count, !.size = size,
                            !.did_truncate = TRUE,
                            !.result = st.result \o sub]
            ELSE format_loop_emit_first(rows, keys, maxChars, i + 1,
                     [st EXCEPT !.row_count = row_count, !.size = size,
                                !.result = st.result \o sub])

format_tail(st) ==
    IF st.row_count = 0 THEN <<"No rows returned">>
    ELSE IF st.did_truncate
    THEN st.result \o <<"Result: showing first " \o ToString(st.row_count - 1)
                        \o " rows (output truncated)">>
    ELSE st.result \o <<"Result: " \o ToString(st.row_count) \o " rows">>

loop_start == [result |-> <<>>, size |-> 0, row_count |-> 0, did_truncate |-> FALSE]

format_result_emit_first(rows, keys, maxChars) ==
    format_tail(format_loop_emit_first(rows, keys, maxChars, 1, loop_start))

format_result(rows, keys, maxChars) ==
    format_tail(format_loop(rows, keys, maxChars, 1, loop_start))

\* "\n".join(output)
RECURSIVE join_lines(_)
join_lines(ls) ==
    IF ls = <<>> THEN ""
    ELSE IF Len(ls) = 1 THEN Head(ls)
    ELSE Head(ls) \o "\n" \o join_lines(Tail(ls))

(***************************************************************************)
(* The database and the driver are the environment: what they answer is    *)
(* chosen nondeterministically from these sets.                            *)
(***************************************************************************)
DefaultMaxChars == 4000

NoUrlMessage ==
    "DB_URL environment variable is not set. Please set it to your database connection string."

ConnectMessage == "(OperationalError) unable to open database"

StatementMessage == "(OperationalError) no such table: t"

FetchMessage == "(InterfaceError) cursor closed"

Rejection ==
    "Error: READ-ONLY MODE is enabled. Only SELECT queries are allowed. CUD operations (CREATE, UPDATE, DELETE) are blocked."

Tools == {"all_table_names", "filter_table_names", "schema_definitions",
          "execute_query"}

QuerySamples ==
    { <<"S","E","L","E","C","T"," ","1">>,
      <<" ","d","r","o","p"," ","t">>,
      <<"U","P","D","A","T","E","\t","t">>,
      <<" ">> }

IntVal(n) == [t |-> "int", v |-> n]

NullVal == [t |-> "null"]

\* What connection.execute(text(query), params) and the cursor can do.
CursorOutcomes ==
    { [k |-> "raise", n |-> 0, rows |-> <<>>],
      [k |-> "fetch_raise", n |-> 0, rows |-> <<>>],
      [k |-> "rowcount", n |-> 0, rows |-> <<>>],
      [k |-> "rowcount", n |-> 1, rows |-> <<>>],
      [k |-> "rows", n |-> 0, rows |-> <<>>],
      [k |-> "rows", n |-> 0, rows |-> << <<IntVal(1)>>, <<NullVal>> >>] }

NoResult == [kind |-> "none", text |-> ""]

Text(t) == [kind |-> "text", text |-> t]

Exception(msg) == [kind |-> "exception", text |-> msg]

(***************************************************************************)
(* Initial state: the module globals as lines 11-21 leave them, before the *)
(* import-time call of get_db_info.                                        *)
(***************************************************************************)
PureIdle ==
    /\ fin = TRUE
    /\ cquery = <<>>
    /\ cret = FALSE
    /\ fkeys = <<>>
    /\ frows = <<>>
    /\ fret = <<>>

SysInit ==
    /\ ENGINE = 0
    /\ engines = <<>>
    /\ borrowed = 0
    /\ pc = [p \in Requests |-> "idle"]
    /\ op = [p \in Requests |-> "none"]
    /\ query = [p \in Requests |-> <<>>]
    /\ conn = [p \in Requests |-> 0]
    /\ connects = [p \in Requests |-> 0]
    /\ refused = [p \in Requests |-> 0]
    /\ constructs = [p \in Requests |-> 0]
    /\ disposes = [p \in Requests |-> 0]
    /\ stmts = [p \in Requests |-> 0]
    /\ prior = [p \in Requests |-> 0]
    /\ made = [p \in Requests |-> 0]
    /\ failed = [p \in Requests |-> FALSE]
    /\ result = [p \in Requests |-> NoResult]
    /\ calls = 0
    /\ phase = "importing"

Init ==
    /\ DB_URL \in BOOLEAN
    /\ READ_ONLY_MODE \in BOOLEAN
    /\ EXECUTE_QUERY_MAX_CHARS = DefaultMaxChars
    /\ SysInit
    /\ PureIdle

(***************************************************************************)
(* Entering a call.  Everything a handler does before it first reads the   *)
(* shared ENGINE is local to the request, so the call, the read-only gate  *)
(* of execute_query and the test of line 61 are one step.                  *)
(***************************************************************************)
\* execute_query with the gate left out
execute_query_no_gate(q) == FALSE

\* execute_query, line 242: the condition of the read-only gate
execute_query_gate(q) == READ_ONLY_MODE /\ is_cud_operation(q)

\* a new call is served by the lowest-numbered free request
FreeSlot(p) == pc[p] = "idle" /\ \A q \in 1..(p - 1) : pc[q] # "idle"

Enter(p, o, q) ==
    LET rejected == o = "execute_query" /\ execute_query_gate(q) IN
    /\ FreeSlot(p)
    /\ calls < MaxCalls
    /\ calls' = calls + 1
    /\ op' = [op EXCEPT ![p] = o]
    /\ query' = [query EXCEPT ![p] = q]
    /\ result' = [result EXCEPT ![p] = IF rejected THEN Text(Rejection) ELSE NoResult]
    /\ pc' = [pc EXCEPT ![p] =
                IF rejected THEN "done"              \* line 243
                ELSE IF ENGINE = 0 THEN "gc_create"  \* line 61
                ELSE "gc_connect"]
    /\ UNCHANGED <<ENGINE, engines, borrowed, conn, connects, refused, constructs,
                   disposes, stmts, prior, made, failed, phase>>

\* DB_INFO = get_db_info(), run once while the module is imported
ImportCall(p) ==
    /\ phase = "importing"
    /\ calls = 0
    /\ Enter(p, "get_db_info", <<>>)

\* the introspection tools: all_table_names, filter_table_names,
\* schema_definitions
IntrospectCall(p) ==
    /\ phase = "serving"
    /\ \E o \in Tools \ {"execute_query"} : Enter(p, o, <<>>)

\* execute_query(query, params)
ExecuteQueryCall(p) ==
    /\ phase = "serving"
    /\ \E q \in QuerySamples : Enter(p, "execute_query", q)

(***************************************************************************)
(* What the caller of get_connection does when it raises.                  *)
(***************************************************************************)
\* execute_query without its except clause: the exception escapes
execute_query_except_missing(msg) == Exception(msg)

\* execute_query, lines 308-309: return f"Error: {str(e)}"
execute_query_except(msg) == Text("Error: " \o msg)

\* get_db_info and the introspection tools have no handler of their own
caller_on_raise(o, msg) ==
    IF o = "execute_query" THEN execute_query_except(msg) ELSE Exception(msg)

\* an exception that ends the import ends the process
phase_after(o, r) ==
    IF o # "get_db_info" THEN phase
    ELSE IF r.kind = "exception" THEN "exited" ELSE "serving"

\* get_connection, lines 92-94: log and re-raise to the caller
Raised(p, msg) ==
    LET r == caller_on_raise(op[p], msg) IN
    /\ result' = [result EXCEPT ![p] = r]
    /\ failed' = [failed EXCEPT ![p] = TRUE]
    /\ pc' = [pc EXCEPT ![p] = "done"]
    /\ phase' = phase_after(op[p], r)

(***************************************************************************)
(* get_connection, lines 59-74: the first attempt.                         *)
(***************************************************************************)
\* line 62: ENGINE = create_new_engine(); a ValueError goes to line 76
CreateFirst(p) ==
    /\ pc[p] = "gc_create"
    /\ constructs' = [constructs EXCEPT ![p] = @ + 1]
    /\ IF DB_URL
       THEN /\ engines' = Append(engines, "live")
            /\ ENGINE' = Len(engines) + 1
            /\ pc' = [pc EXCEPT ![p] = "gc_connect"]
       ELSE /\ pc' = [pc EXCEPT ![p] = "gc_except"]
            /\ UNCHANGED <<ENGINE, engines>>
    /\ UNCHANGED <<borrowed, op, query, conn, connects, refused, disposes, stmts,
                   prior, made, failed, result, calls, phase>>

\* lines 64-74: ENGINE.connect(), the best-effort version tag, return
ConnectFirst(p) ==
    /\ pc[p] = "gc_connect"
    /\ connects' = [connects EXCEPT ![p] = @ + 1]
    /\ \E ok \in BOOLEAN :
         IF ok
         THEN /\ UNCHANGED refused
              /\ conn' = [conn EXCEPT ![p] = ENGINE]
              /\ borrowed' = borrowed + 1
              /\ stmts' = [stmts EXCEPT ![p] = @ + 1]
              /\ pc' = [pc EXCEPT ![p] = "work"]
              /\ UNCHANGED prior
         ELSE /\ refused' = [refused EXCEPT ![p] = @ + 1]
              /\ prior' = [prior EXCEPT ![p] = ENGINE]
              /\ pc' = [pc EXCEPT ![p] = "gc_except"]
              /\ UNCHANGED <<conn, borrowed, stmts>>
    /\ UNCHANGED <<ENGINE, engines, op, query, constructs, disposes, made,
                   failed, result, calls, phase>>

(***************************************************************************)
(* get_connection, lines 76-90: the recovery path.                         *)
(***************************************************************************)
\* the handler without the disposal of the stale Engine
ExceptNoDispose(p) ==
    /\ pc[p] = "gc_except"
    /\ pc' = [pc EXCEPT ![p] = "gc_recreate"]
    /\ UNCHANGED <<ENGINE, engines, borrowed, op, query, conn, connects, refused,
                   constructs, disposes, stmts, prior, made, failed, result,
                   calls, phase>>

\* lines 80-84: if ENGINE is not None, ENGINE.dispose().  An error raised by
\* dispose() is swallowed; the Engine counts as disposed once dispose() has
\* been called on it, which is all the code does before dropping it.
Except(p) ==
    /\ pc[p] = "gc_except"
    /\ IF ENGINE # 0
       THEN /\ engines' = [engines EXCEPT ![ENGINE] = "disposed"]
            /\ disposes' = [disposes EXCEPT ![p] = @ + 1]
       ELSE UNCHANGED <<engines, disposes>>
    /\ pc' = [pc EXCEPT ![p] = "gc_recreate"]
    /\ UNCHANGED <<ENGINE, borrowed, op, query, conn, connects, refused, constructs,
                   stmts, prior, made, failed, result, calls, phase>>

\* line 87: ENGINE = create_new_engine()
Recreate(p) ==
    /\ pc[p] = "gc_recreate"
    /\ constructs' = [constructs EXCEPT ![p] = @ + 1]
    /\ IF DB_URL
       THEN /\ engines' = Append(engines, "live")
            /\ ENGINE' = Len(engines) + 1
            /\ made' = [made EXCEPT ![p] = Len(engines) + 1]
            /\ pc' = [pc EXCEPT ![p] = "gc_retry"]
            /\ UNCHANGED <<failed, result, phase>>
       ELSE /\ Raised(p, NoUrlMessage)
            /\ UNCHANGED <<ENGINE, engines, made>>
    /\ UNCHANGED <<borrowed, op, query, conn, connects, refused, disposes, stmts,
                   prior, calls>>

\* the second attempt going back to the handler when it fails
RetryConnectLoop(p) ==
    /\ pc[p] = "gc_retry"
    /\ connects' = [connects EXCEPT ![p] = @ + 1]
    /\ \E ok \in BOOLEAN :
         IF ok
         THEN /\ UNCHANGED refused
              /\ conn' = [conn EXCEPT ![p] = ENGINE]
              /\ borrowed' = borrowed + 1
              /\ pc' = [pc EXCEPT ![p] = "work"]
         ELSE /\ refused' = [refused EXCEPT ![p] = @ + 1]
              /\ pc' = [pc EXCEPT ![p] = "gc_except"]
              /\ UNCHANGED <<conn, borrowed>>
    /\ UNCHANGED <<ENGINE, engines, op, query, constructs, disposes, stmts,
                   prior, made, calls, failed, result, phase>>

\* lines 88-94: connection = ENGINE.connect(); return it, or re-raise
RetryConnect(p) ==
    /\ pc[p] = "gc_retry"
    /\ connects' = [connects EXCEPT ![p] = @ + 1]
    /\ \E ok \in BOOLEAN :
         IF ok
         THEN /\ UNCHANGED refused
              /\ conn' = [conn EXCEPT ![p] = ENGINE]
              /\ borrowed' = borrowed + 1
              /\ pc' = [pc EXCEPT ![p] = "work"]
              /\ UNCHANGED <<failed, result, phase>>
         ELSE /\ refused' = [refused EXCEPT ![p] = @ + 1]
              /\ Raised(p, ConnectMessage)
              /\ UNCHANGED <<conn, borrowed>>
    /\ UNCHANGED <<ENGINE, engines, op, query, constructs, disposes, stmts,
                   prior, made, calls>>

(***************************************************************************)
(* The bodies of the with blocks.                                          *)
(***************************************************************************)
\* a handler that closes the connection only when the block returns
with_exit_return_only(b, path) == IF path = "raise" THEN b ELSE b - 1

\* Connection.__exit__: the with statement closes the connection whether the
\* block returns or raises
with_exit(b, path) == b - 1

\* leaving the with block of request p by path, handing r to the caller
Leave(p, path, r) ==
    /\ borrowed' = with_exit(borrowed, path)
    /\ conn' = [conn EXCEPT ![p] = 0]
    /\ result' = [result EXCEPT ![p] = r]
    /\ failed' = [failed EXCEPT ![p] = (path = "raise")]
    /\ pc' = [pc EXCEPT ![p] = "done"]
    /\ phase' = phase_after(op[p], r)
    /\ UNCHANGED <<ENGINE, engines, op, query, connects, refused, constructs,
                   disposes, prior, made, calls>>

\* get_db_info, lines 98-113: reads the dialect and the URL, no statement
GetDbInfoWork(p) ==
    /\ pc[p] = "work"
    /\ op[p] = "get_db_info"
    /\ Leave(p, "return", Text("Connected to sqlite version 3.45.1 database latest_db.db."))
    /\ UNCHANGED stmts

\* all_table_names, filter_table_names, schema_definitions: the catalog
\* answers, or raises and the error propagates
IntrospectWork(p) ==
    /\ pc[p] = "work"
    /\ op[p] \in Tools \ {"execute_query"}
    /\ stmts' = [stmts EXCEPT ![p] = @ + 1]
    /\ \E ok \in BOOLEAN :
         IF ok THEN Leave(p, "return", Text("t, u"))
         ELSE Leave(p, "raise", Exception(StatementMessage))

\* execute_query, lines 295-309
ExecuteWork(p) ==
    /\ pc[p] = "work"
    /\ op[p] = "execute_query"
    /\ stmts' = [stmts EXCEPT ![p] = @ + 1]
    /\ \E c \in CursorOutcomes :
         CASE c.k = "raise" ->
                Leave(p, "raise", execute_query_except(StatementMessage))
           [] c.k = "fetch_raise" ->
                Leave(p, "raise", execute_query_except(FetchMessage))
           [] c.k = "rowcount" ->
                Leave(p, "return",
                      Text("Success: " \o ToString(c.n) \o " rows affected"))
           [] OTHER ->
                Leave(p, "return",
                      Text(join_lines(format_result(c.rows, <<"x">>,
                                                    EXECUTE_QUERY_MAX_CHARS))))

\* the result reaches the caller; the request is free for the next call
Return(p) ==
    /\ pc[p] = "done"
    /\ phase # "exited"
    /\ pc' = [pc EXCEPT ![p] = "idle"]
    /\ op' = [op EXCEPT ![p] = "none"]
    /\ query' = [query EXCEPT ![p] = <<>>]
    /\ connects' = [connects EXCEPT ![p] = 0]
    /\ refused' = [refused EXCEPT ![p] = 0]
    /\ constructs' = [constructs EXCEPT ![p] = 0]
    /\ disposes' = [disposes EXCEPT ![p] = 0]
    /\ stmts' = [stmts EXCEPT ![p] = 0]
    /\ prior' = [prior EXCEPT ![p] = 0]
    /\ made' = [made EXCEPT ![p] = 0]
    /\ failed' = [failed EXCEPT ![p] = FALSE]
    /\ result' = [result EXCEPT ![p] = NoResult]
    /\ UNCHANGED <<ENGINE, engines, borrowed, conn, calls, phase>>

(***************************************************************************)
(* Specifications.                                                         *)
(***************************************************************************)
\* the configuration and the harness variables stay as they are
Frame == UNCHANGED <<cfgvars, purevars>>

\* no other request is in progress
Alone(p) == \A q \in Requests \ {p} : pc[q] = "idle"

\* requests served at the same time, steps interleaved
Next ==
    \/ \E p \in Requests : ImportCall(p) /\ Frame
    \/ \E p \in Requests : IntrospectCall(p) /\ Frame
    \/ \E p \in Requests : ExecuteQueryCall(p) /\ Frame
    \/ \E p \in Requests : CreateFirst(p) /\ Frame
    \/ \E p \in Requests : ConnectFirst(p) /\ Frame
    \/ \E p \in Requests : Except(p) /\ Frame
    \/ \E p \in Requests : Recreate(p) /\ Frame
    \/ \E p \in Requests : RetryConnect(p) /\ Frame
    \/ \E p \in Requests : GetDbInfoWork(p) /\ Frame
    \/ \E p \in Requests : IntrospectWork(p) /\ Frame
    \/ \E p \in Requests : ExecuteWork(p) /\ Frame
    \/ \E p \in Requests : Return(p) /\ Frame

Spec == Init /\ [][Next]_vars

\* one request at a time, each run to completion
NextSeq ==
    \/ \E p \in Requests : Alone(p) /\ ImportCall(p) /\ Frame
    \/ \E p \in Requests : Alone(p) /\ IntrospectCall(p) /\ Frame
    \/ \E p \in Requests : Alone(p) /\ ExecuteQueryCall(p) /\ Frame
    \/ \E p \in Requests : Alone(p) /\ CreateFirst(p) /\ Frame
    \/ \E p \in Requests : Alone(p) /\ ConnectFirst(p) /\ Frame
    \/ \E p \in Requests : Alone(p) /\ Except(p) /\ Frame
    \/ \E p \in Requests : Alone(p) /\ Recreate(p) /\ Frame
    \/ \E p \in Requests : Alone(p) /\ RetryConnect(p) /\ Frame
    \/ \E p \in Requests : Alone(p) /\ GetDbInfoWork(p) /\ Frame
    \/ \E p \in Requests : Alone(p) /\ IntrospectWork(p) /\ Frame
    \/ \E p \in Requests : Alone(p) /\ ExecuteWork(p) /\ Frame
    \/ \E p \in Requests : Alone(p) /\ Return(p) /\ Frame

SpecSeq == Init /\ [][NextSeq]_vars

(***************************************************************************)
(* Harness for is_cud_operation: every text over ClassifyAlphabet up to    *)
(* MaxQueryLen characters, and longer texts around each keyword.           *)
(***************************************************************************)
ClassifyAlphabet == {" ", "\t", "d", "D", "r", "R", "O", "P"}

ClassifySamples ==
    { <<"I","N","S","E","R","T">>,
      <<"u","p","d","a","t","e"," ","t">>,
      <<"\t","D","e","l","e","t","e","\t","f","r","o","m">>,
      <<"C","R","E","A","T","E"," "," ","T","A","B","L","E">>,
      <<"a","l","t","e","r">>,
      <<"T","R","U","N","C","A","T","E"," ">>,
      <<"r","e","p","l","a","c","e">>,
      <<" ","M","E","R","G","E"," ","x">>,
      <<"u","p","s","e","r","t">>,
      <<"I","N","S","E","R","T","S">>,
      <<"D","R","O","P",";">>,
      <<"-","-"," ","D","R","O","P">>,
      <<"W","I","T","H"," ","x"," ","I","N","S","E","R","T">>,
      <<"S","E","L","E","C","T"," ","1">> }

ClassifyInputs ==
    UNION { [1..n -> ClassifyAlphabet] : n \in 0..MaxQueryLen } \cup ClassifySamples

InitClassify ==
    /\ DB_URL = TRUE
    /\ READ_ONLY_MODE = TRUE
    /\ EXECUTE_QUERY_MAX_CHARS = DefaultMaxChars
    /\ SysInit
    /\ fin = FALSE
    /\ cquery \in ClassifyInputs
    /\ cret = FALSE
    /\ fkeys = <<>>
    /\ frows = <<>>
    /\ fret = <<>>

\* is_cud_operation(query) is called and returns
Classify ==
    /\ fin = FALSE
    /\ fin' = TRUE
    /\ cret' = is_cud_operation(cquery)
    /\ UNCHANGED <<cfgvars, sysvars, cquery, fkeys, frows, fret>>

NextClassify == Classify

SpecClassify == InitClassify /\ [][NextClassify]_vars

(***************************************************************************)
(* Harness for format_result: every cursor of up to MaxRows rows over the  *)
(* sample keys and values, under every cap up to MaxCharsBound.            *)
(***************************************************************************)
DateVal == [t |-> "date", iso |-> "2025-08-15"]

FormatCursors ==
    UNION { [1..n -> [1..1 -> {NullVal, IntVal(1), IntVal(22), DateVal}]]
            : n \in 0..MaxRows }

WideCursors ==
    UNION { [1..n -> [1..2 -> {NullVal, IntVal(7)}]] : n \in 0..MaxRows }

InitFormat ==
    /\ DB_URL = TRUE
    /\ READ_ONLY_MODE = TRUE
    /\ EXECUTE_QUERY_MAX_CHARS \in 0..MaxCharsBound
    /\ SysInit
    /\ fin = FALSE
    /\ cquery = <<>>
    /\ cret = FALSE
    /\ \/ fkeys = <<"x">> /\ frows \in FormatCursors
       \/ fkeys = <<"id", "v">> /\ frows \in WideCursors
    /\ fret = <<>>

\* format_result(cursor_result) is called and returns
Format ==
    /\ fin = FALSE
    /\ fin' = TRUE
    /\ fret' = format_result(frows, fkeys, EXECUTE_QUERY_MAX_CHARS)
    /\ UNCHANGED <<cfgvars, sysvars, cquery, cret, fkeys, frows>>

NextFormat == Format

SpecFormat == InitFormat /\ [][NextFormat]_vars

(***************************************************************************)
(* Properties.                                                             *)
(***************************************************************************)
Min(S) == CHOOSE x \in S : \A y \in S : x <= y

Max(S) == CHOOSE x \in S : \A y \in S : y <= x

\* The first whitespace-delimited token of a text, by positions: it starts at
\* the first non-whitespace character and runs to the last position before
\* the next whitespace character.
FirstToken(q) ==
    LET inked == {i \in 1..Len(q) : q[i] \notin Whitespace} IN
    IF inked = {} THEN <<>>
    ELSE LET a == Min(inked)
             b == Max({j \in a..Len(q) : \A k \in a..j : q[k] \notin Whitespace})
         IN SubSeq(q, a, b)

\* StatementKind of section 3: WRITE_OR_DDL iff the upper-cased first token
\* is a keyword
WriteOrDDL(q) == as_str(upper(FirstToken(q))) \in cud_keywords

LiveEngines == {i \in 1..Len(engines) : engines[i] = "live"}

Finished(p) == pc[p] = "done"

\* C1: in read-only mode execute_query on a WRITE_OR_DDL text returns the
\* fixed rejection message and the call never enters get_connection: it opens
\* no connection, builds and disposes no Engine, sends no statement.
C1_ReadOnlyRejectsWithoutConnection ==
    \A p \in Requests :
       (op[p] = "execute_query" /\ READ_ONLY_MODE /\ WriteOrDDL(query[p]))
       => /\ pc[p] = "done"
          /\ result[p] = Text(Rejection)
          /\ connects[p] = 0
          /\ constructs[p] = 0
          /\ disposes[p] = 0
          /\ stmts[p] = 0
          /\ conn[p] = 0

C1_Witness ==
    \E p \in Requests :
       /\ Finished(p)
       /\ op[p] = "execute_query"
       /\ READ_ONLY_MODE
       /\ WriteOrDDL(query[p])
       /\ result[p] = Text(Rejection)
       /\ ENGINE # 0

\* C2: one get_connection call opens a connection at most twice, the second
\* time only after it has built a fresh Engine; when both attempts fail the
\* call has ended by raising the failure to its caller.
C2_AtMostTwoAttempts ==
    \A p \in Requests :
       /\ connects[p] <= 2
       /\ connects[p] = 2 => (made[p] # 0 /\ refused[p] >= 1)
       /\ refused[p] = 2
          => /\ Finished(p)
             /\ failed[p]
             /\ conn[p] = 0
             /\ result[p] = caller_on_raise(op[p], ConnectMessage)

C2_Witness ==
    \E p \in Requests :
       /\ refused[p] = 2
       /\ connects[p] = 2
       /\ Finished(p)
       /\ result[p].kind = "exception"

\* C3: when the first attempt failed on an existing Engine, that Engine is
\* disposed before the new one is built, and when the second attempt
\* succeeds the global ENGINE is the new Engine, still live, and the returned
\* connection was opened from it.
C3_RecoveryReplacesEngine ==
    \A p \in Requests :
       prior[p] # 0
       => /\ pc[p] \in {"gc_recreate", "gc_retry"} => engines[prior[p]] = "disposed"
          /\ (pc[p] = "work" /\ connects[p] = 2)
             => /\ engines[prior[p]] = "disposed"
                /\ made[p] # prior[p]
                /\ ENGINE = made[p]
                /\ engines[made[p]] = "live"
                /\ conn[p] = made[p]

C3_Witness ==
    \E p \in Requests :
       /\ pc[p] = "work"
       /\ connects[p] = 2
       /\ prior[p] # 0
       /\ conn[p] = ENGINE

\* C4: at most one Engine is live, and a live Engine is the one the global
\* ENGINE refers to (none was dropped without being disposed).
C4_AtMostOneLiveEngine ==
    /\ Cardinality(LiveEngines) <= 1
    /\ \A i \in LiveEngines : i = ENGINE

\* C5: a connection a request holds was borrowed from an Engine that is
\* still live.
C5_HeldConnectionEngineLive ==
    \A p \in Requests : conn[p] # 0 => engines[conn[p]] = "live"

\* C6: every connection a tool borrows is released on every exit path: when
\* no call is in progress no connection is checked out, and a finished call
\* holds none.
C6_ConnectionsReleased ==
    /\ borrowed = Cardinality({p \in Requests : conn[p] # 0})
    /\ \A p \in Requests : pc[p] \in {"idle", "done"} => conn[p] = 0
    /\ (\A p \in Requests : pc[p] \in {"idle", "done"}) => borrowed = 0

C6_Witness ==
    \E p \in Requests :
       /\ Finished(p)
       /\ op[p] \in Tools
       /\ connects[p] > refused[p]
       /\ failed[p]
       /\ borrowed = 0

ErrorTexts ==
    {"Error: " \o m : m \in {NoUrlMessage, ConnectMessage, StatementMessage,
                             FetchMessage}}

\* C7: execute_query always ends by returning text, and the text is
\* "Error: <message>" whenever get_connection, the statement or the
\* formatting raised.
C7_ExecuteQueryReturnsText ==
    \A p \in Requests :
       (Finished(p) /\ op[p] = "execute_query")
       => /\ result[p].kind = "text"
          /\ failed[p] => result[p].text \in ErrorTexts

C7_Witness ==
    \E p \in Requests :
       /\ Finished(p)
       /\ op[p] = "execute_query"
       /\ refused[p] = 2
       /\ result[p] = Text("Error: " \o ConnectMessage)

\* rendered size of the first k rows: sum over their lines of length + 1
RECURSIVE Cumulative(_, _, _)
Cumulative(rows, keys, k) ==
    IF k = 0 THEN 0
    ELSE Cumulative(rows, keys, k - 1) + lines_size(sub_result(k, keys, rows[k]))

\* the complete row blocks of the first k rows
RECURSIVE Blocks(_, _, _)
Blocks(rows, keys, k) ==
    IF k = 0 THEN <<>>
    ELSE Blocks(rows, keys, k - 1) \o sub_result(k, keys, rows[k])

\* the longest prefix of rows whose rendered size is within the cap
Fitting(rows, keys, cap) ==
    Max({k \in 0..Len(rows) : Cumulative(rows, keys, k) <= cap})

\* C8: when the rows' rendered size exceeds the cap, the report is exactly
\* the complete blocks of the longest prefix that fits, followed by one line
\* giving that number of rows with the truncation marker.
C8_TruncationEmitsFittingPrefix ==
    (fin /\ Cumulative(frows, fkeys, Len(frows)) > EXECUTE_QUERY_MAX_CHARS)
    => LET k == Fitting(frows, fkeys, EXECUTE_QUERY_MAX_CHARS) IN
       fret = Blocks(frows, fkeys, k)
              \o <<"Result: showing first " \o ToString(k)
                   \o " rows (output truncated)">>

C8_Witness ==
    /\ fin
    /\ Len(frows) = 3
    /\ Fitting(frows, fkeys, EXECUTE_QUERY_MAX_CHARS) = 1
    /\ fret[Len(fret)] = "Result: showing first 1 rows (output truncated)"

C10_ClassifierMatchesFirstToken ==
    fin => /\ cret = WriteOrDDL(cquery)
           /\ FirstToken(cquery) = <<>> => cret = FALSE

C10_Witness ==
    /\ fin
    /\ cquery = <<"\t", "d", "R", "O", "P">>
    /\ cret = TRUE

====
